---- MODULE Spec2Model ----
(***************************************************************************)
(* Deep Q-Learning agent of src/dqn_agent.py: the ReplayBuffer (a deque    *)
(* with maxlen, random.sample without replacement), Agent.step (store,     *)
(* count modulo UPDATE_EVERY, gate on occupancy, sample, learn),           *)
(* Agent.learn (TD target once, then num_epoches times a gradient step of  *)
(* the local network and a soft update of the target network),             *)
(* Agent.soft_update and Agent.act (epsilon-greedy).                       *)
(*                                                                         *)
(* Numbers.  Network parameters, action-values and rewards are fixed-point *)
(* numbers in units of 1/TauDen (thousandths); a product by tau is floored *)
(* back to that unit (finite precision).  TD targets carry the further     *)
(* factor GammaDen, so that y = reward + gamma * Q is exact.  IEEE         *)
(* non-finite values (inf, NaN) are not represented.                       *)
(*                                                                         *)
(* The network of src/model.py is abstracted to one weight per action:     *)
(* Q(s, a) = theta[a] * s[1].  A gradient step moves every weight with a   *)
(* non-zero Huber-loss gradient by one LrStep against the gradient's sign. *)
(***************************************************************************)
EXTENDS Integers, Sequences, FiniteSets, TLC

\* ---------------------------------------------------------------- constants
BUFFER_SIZE == 100000
BATCH_SIZE == 64
UPDATE_EVERY == 4
num_epoches == 10
\* GAMMA = 0.99 = GammaNum / GammaDen
GammaNum == 99
GammaDen == 100
\* TAU = 1e-3 = TauNum / TauDen
TauNum == 1
TauDen == 1000
\* Agent(state_size, action_size, seed)
state_size == 1
action_size == 2

\* ------------------------------------------------------------------- bounds
\* small configurations: the deque's maxlen, the batch size and the update
\* period range over 1 .. Max*
MaxBufferSize == 3
MaxBatchSize == 2
MaxUpdateEvery == 2
\* a run makes batch_size + update_every + ExtraSteps insertions at most
ExtraSteps == 0
\* direct calls of learn and soft_update by the driver
MaxLearnCalls == 1
MaxSoftCalls == 1
\* direct calls of sample by the driver
MaxSampleCalls == 2
\* random.sample: every draw is enumerated for populations up to MaxPop
MaxPop == 4
\* random.random() returns u / RandDen, u in 0..RandDen-1
RandDen == 2

\* ------------------------------------------------------------------ helpers
Actions == 0 .. (action_size - 1)
One == TauDen
LrStep == TauDen

Min(a, b) == IF a < b THEN a ELSE b
Max(a, b) == IF a > b THEN a ELSE b
Sign(x) == IF x > 0 THEN 1 ELSE IF x < 0 THEN -1 ELSE 0

RECURSIVE SumSeq(_)
SumSeq(s) == IF s = <<>> THEN 0 ELSE Head(s) + SumSeq(Tail(s))

\* vectors of the given dimension over {0, 1}
Vectors(dim) == [1 .. dim -> 0 .. 1]
States == Vectors(state_size)

Experience(s, a, r, ns, d) ==
    [state |-> s, action |-> a, reward |-> r, next_state |-> ns, done |-> d]

\* ------------------------------------------------------------------- state
VARIABLES
    maxlen,         \* ReplayBuffer.memory.maxlen (buffer_size)
    batch_size,     \* ReplayBuffer.batch_size, the BATCH_SIZE of Agent.step
    update_every,   \* the UPDATE_EVERY of Agent.step
    env,            \* the transitions the driver may pass to step / add
    memory,         \* ReplayBuffer.memory: the deque, oldest first
    t_step,         \* Agent.t_step
    theta_local,    \* parameters of Agent.qnetwork_local
    theta_target,   \* parameters of Agent.qnetwork_target
    pc,             \* "idle", or the position inside Agent.learn's loop
    epoch,          \* learn: the loop variable
    experiences,    \* learn: the batch (five aligned columns)
    gamma,          \* learn: the discount factor's numerator over GammaDen
    y,              \* learn: the TD targets, in units of 1/(TauDen*GammaDen)
    target_entry,   \* the target parameters as learn was entered
    n_grad,         \* optimizer steps made by the current / last learn
    n_soft,         \* soft updates made by the current / last learn
    err,            \* the exception the last call raised, or "none"
    last,           \* the last call of the driver: its name, inputs, result
    n_added,        \* transitions ever appended to the deque
    step_count,     \* calls of Agent.step
    learn_count,    \* calls of Agent.learn made by Agent.step
    sample_count,   \* calls of ReplayBuffer.sample
    learn_calls,    \* direct calls of Agent.learn by the driver
    soft_calls      \* direct calls of Agent.soft_update by the driver

vars == << maxlen, batch_size, update_every, env, memory, t_step, theta_local,
           theta_target, pc, epoch, experiences, gamma, y, target_entry,
           n_grad, n_soft, err, last, n_added, step_count, learn_count,
           sample_count, learn_calls, soft_calls >>

config == << maxlen, batch_size, update_every, env >>
frame == << pc, epoch, experiences, gamma, y, target_entry, n_grad, n_soft >>
nets == << theta_local, theta_target >>

\* ------------------------------------------------------------ ReplayBuffer
\* mutant: a full deque drops its newest element instead of its oldest
DequeAppendDropNewest(mem, e, cap) ==
    IF Len(mem) >= cap
    THEN Append(SubSeq(mem, 1, Len(mem) - 1), e)
    ELSE Append(mem, e)

\* deque(maxlen).append: a full deque drops its leftmost element
DequeAppend(mem, e, cap) ==
    IF Len(mem) >= cap THEN Append(Tail(mem), e) ELSE Append(mem, e)

\* the namedtuple built by add; id is the object's identity (its insertion
\* number), not one of the five fields
Stored(e, id) ==
    [state |-> e.state, action |-> e.action, reward |-> e.reward,
     next_state |-> e.next_state, done |-> e.done, id |-> id]

\* sequences of k pairwise distinct positions of a population of n
Injective(n, k) ==
    {f \in [1 .. k -> 1 .. n] : \A i, j \in 1 .. k : i # j => f[i] # f[j]}

\* the k-windows of a population of n, one starting at each position
Windows(n, k) ==
    {[i \in 1 .. k |-> ((o + i - 2) % n) + 1] : o \in 1 .. n}

\* mutant: positions drawn with replacement (random.choices)
SampleChoicesWithReplacement(n, k) == [1 .. k -> 1 .. n]

\* random.sample(population, k): the positions it may draw.  Every draw is
\* enumerated up to MaxPop elements; of a larger population (the 64 of 68
\* of the end-to-end run) the windows are.
SampleChoices(n, k) ==
    IF n <= MaxPop THEN Injective(n, k) ELSE Windows(n, k)

\* uint8 then float: True -> 1.0, False -> 0.0
DoneToFloat(d) == IF d THEN 1 ELSE 0

\* the five np.vstack columns of sample
Columns(exps) ==
    [states |-> [i \in 1 .. Len(exps) |-> exps[i].state],
     actions |-> [i \in 1 .. Len(exps) |-> exps[i].action],
     rewards |-> [i \in 1 .. Len(exps) |-> exps[i].reward],
     next_states |-> [i \in 1 .. Len(exps) |-> exps[i].next_state],
     dones |-> [i \in 1 .. Len(exps) |-> DoneToFloat(exps[i].done)]]

NoBatch == Columns(<< >>)

\* np.vstack raises ValueError unless all rows have one length
VStackOk(exps) ==
    \A i, j \in 1 .. Len(exps) : Len(exps[i].state) = Len(exps[j].state)

\* mutant: a buffer that is too small yields a shorter batch, no error
SampleOutcomesClamped(mem, k) ==
    {LET exps == [i \in 1 .. Min(k, Len(mem)) |-> mem[idx[i]]]
     IN  [err |-> "none", idx |-> idx, batch |-> Columns(exps)]
     : idx \in SampleChoices(Len(mem), Min(k, Len(mem)))}

\* ReplayBuffer.sample: what a call may return or raise
SampleOutcomes(mem, k) ==
    IF Len(mem) < k
    THEN {[err |-> "ValueError", idx |-> << >>, batch |-> NoBatch]}
    ELSE {LET exps == [i \in 1 .. k |-> mem[idx[i]]]
          IN  IF VStackOk(exps)
              THEN [err |-> "none", idx |-> idx, batch |-> Columns(exps)]
              ELSE [err |-> "ValueError", idx |-> idx, batch |-> NoBatch]
          : idx \in SampleChoices(Len(mem), k)}

\* ----------------------------------------------------------------- QNetwork
\* torch raises RuntimeError on an input of another width
ForwardOk(s) == Len(s) = state_size

Forward(theta, s) == [a \in Actions |-> theta[a] * s[1]]

MaxValue(q) == CHOOSE v \in {q[a] : a \in Actions} : \A a \in Actions : q[a] <= v

\* np.argmax: the first index of the maximum
ArgMax(q) == CHOOSE a \in Actions :
                /\ q[a] = MaxValue(q)
                /\ \A b \in Actions : b < a => q[b] # MaxValue(q)

\* -------------------------------------------------------------------- learn
\* mutant: the bootstrapped value is not masked by (1 - dones)
TDTargetUnmasked(r, qmax, d, g) == GammaDen * r + g * qmax

\* y = rewards + gamma * Qsa_max * (1 - dones)
TDTarget(r, qmax, d, g) == GammaDen * r + g * qmax * (1 - d)

TDTargets(batch, theta, g) ==
    [i \in 1 .. Len(batch.rewards) |->
        TDTarget(batch.rewards[i],
                 MaxValue(Forward(theta, batch.next_states[i])),
                 batch.dones[i], g)]

\* the derivative of SmoothL1Loss: the difference clipped to [-1, 1]
Clip(d) == Max(0 - GammaDen * One, Min(GammaDen * One, d))

\* zero_grad, backward, optimizer.step
GradStep(theta, batch, yy) ==
    LET diff(i) == GammaDen * Forward(theta, batch.states[i])[batch.actions[i]] - yy[i]
        grad(a) == SumSeq([i \in 1 .. Len(yy) |->
                      IF batch.actions[i] = a
                      THEN Clip(diff(i)) * batch.states[i][1] ELSE 0])
    IN  [a \in Actions |-> theta[a] - LrStep * Sign(grad(a))]

\* mutant: the roles of local and target are swapped in the blend
SoftUpdateSwapped(local, target, tauN) ==
    [a \in Actions |-> (tauN * target[a] + (TauDen - tauN) * local[a]) \div TauDen]

\* target <- tau * local + (1 - tau) * target, tau = tauN / TauDen
SoftUpdate(local, target, tauN) ==
    [a \in Actions |-> (tauN * local[a] + (TauDen - tauN) * target[a]) \div TauDen]

\* the number of inner epochs
NumEpochs == num_epoches

\* learn's lines before the loop
LearnEnter(batch, g) ==
    /\ experiences' = batch
    /\ gamma' = g
    /\ target_entry' = theta_target
    /\ y' = TDTargets(batch, theta_target, g)
    /\ epoch' = 0
    /\ n_grad' = 0
    /\ n_soft' = 0
    /\ pc' = "grad"

\* mutant: y is recomputed from the current target parameters every epoch
LoopTargetRecomputed(yy, batch, theta, g) == TDTargets(batch, theta, g)

\* the y the loop's criterion(Qsa_local, y) reads: the one computed before
\* the loop, whatever the target parameters have become
LoopTarget(yy, batch, theta, g) == yy

\* learn returns (or raises): its local variables are gone
LearnExit ==
    /\ pc' = "idle"
    /\ epoch' = 0
    /\ experiences' = NoBatch
    /\ gamma' = 0
    /\ y' = << >>
    /\ target_entry' = << >>

\* the loop body up to optimizer.step
EpochGrad ==
    /\ pc = "grad"
    /\ IF ForwardOk(experiences.states[1])
       THEN /\ y' = LoopTarget(y, experiences, theta_target, gamma)
            /\ theta_local' = GradStep(theta_local, experiences, y')
            /\ n_grad' = n_grad + 1
            /\ pc' = "soft"
            /\ err' = err
            /\ UNCHANGED << epoch, experiences, gamma, target_entry >>
       ELSE /\ err' = "RuntimeError"
            /\ LearnExit
            /\ UNCHANGED << theta_local, n_grad >>
    /\ UNCHANGED << config, memory, t_step, theta_target, n_soft, last, n_added,
                    step_count, learn_count, sample_count, learn_calls,
                    soft_calls >>

\* the loop body's soft update, then the loop's next iteration or its end
EpochSoft ==
    /\ pc = "soft"
    /\ theta_target' = SoftUpdate(theta_local, theta_target, TauNum)
    /\ n_soft' = n_soft + 1
    /\ IF epoch + 1 < NumEpochs
       THEN /\ epoch' = epoch + 1
            /\ pc' = "grad"
            /\ UNCHANGED << experiences, gamma, y, target_entry >>
       ELSE LearnExit
    /\ UNCHANGED << config, memory, t_step, theta_local, n_grad, err, last,
                    n_added, step_count, learn_count, sample_count, learn_calls,
                    soft_calls >>

\* ------------------------------------------------------------------- driver
\* insertions a run makes at most
StepCap == batch_size + update_every + ExtraSteps

\* mutant: the gate admits an occupancy equal to the batch size
ShouldLearnAtLeast(t, occupancy, k) == t = 0 /\ occupancy >= k

\* mutant: the gate ignores the step counter
ShouldLearnAnyStep(t, occupancy, k) == occupancy > k

\* Agent.step's gate: every UPDATE_EVERY steps, once enough is stored
ShouldLearn(t, occupancy, k) == t = 0 /\ occupancy > k

\* Agent.step(state, action, reward, next_state, done)
Step ==
    /\ pc = "idle"
    /\ n_added < StepCap
    /\ \E e \in env :
        LET mem1 == DequeAppend(memory, Stored(e, n_added + 1), maxlen)
            t1 == (t_step + 1) % update_every
        IN  /\ memory' = mem1
            /\ n_added' = n_added + 1
            /\ t_step' = t1
            /\ IF ShouldLearn(t1, Len(mem1), batch_size)
               THEN \E r \in SampleOutcomes(mem1, batch_size) :
                      /\ sample_count' = sample_count + 1
                      /\ last' = [op |-> "step", input |-> e, idx |-> r.idx]
                      /\ IF r.err = "none"
                         THEN /\ LearnEnter(r.batch, GammaNum)
                              /\ learn_count' = learn_count + 1
                              /\ err' = "none"
                         ELSE /\ err' = r.err
                              /\ UNCHANGED << frame, learn_count >>
               ELSE /\ err' = "none"
                    /\ last' = [op |-> "step", input |-> e, idx |-> << >>]
                    /\ UNCHANGED << frame, learn_count, sample_count >>
    /\ step_count' = step_count + 1
    /\ UNCHANGED << config, nets, learn_calls, soft_calls >>

\* ReplayBuffer.add(state, action, reward, next_state, done)
Add ==
    /\ pc = "idle"
    /\ n_added < StepCap
    /\ \E e \in env :
        /\ memory' = DequeAppend(memory, Stored(e, n_added + 1), maxlen)
        /\ n_added' = n_added + 1
        /\ last' = [op |-> "add", input |-> e]
    /\ err' = "none"
    /\ UNCHANGED << config, t_step, nets, frame, step_count, learn_count,
                    sample_count, learn_calls, soft_calls >>

\* ReplayBuffer.sample()
Sample ==
    /\ pc = "idle"
    /\ sample_count < MaxSampleCalls
    /\ \E r \in SampleOutcomes(memory, batch_size) :
        /\ err' = r.err
        /\ last' = [op |-> "sample", idx |-> r.idx, batch |-> r.batch]
    /\ sample_count' = sample_count + 1
    /\ UNCHANGED << config, memory, t_step, nets, frame, n_added, step_count,
                    learn_count, learn_calls, soft_calls >>

\* discount factors of a direct learn call: 0, GAMMA, 1
Gammas == {0, GammaNum, GammaDen}

\* Agent.learn(memory.sample(), gamma) called by the driver
Learn ==
    /\ pc = "idle"
    /\ learn_calls < MaxLearnCalls
    /\ \E g \in Gammas, r \in SampleOutcomes(memory, batch_size) :
        /\ r.err = "none"
        /\ LearnEnter(r.batch, g)
        /\ last' = [op |-> "learn", idx |-> r.idx]
    /\ err' = "none"
    /\ sample_count' = sample_count + 1
    /\ learn_calls' = learn_calls + 1
    /\ UNCHANGED << config, memory, t_step, nets, n_added, step_count,
                    learn_count, soft_calls >>

\* blend factors of a direct soft_update call: 0, 1/2, 1 (learn's own calls
\* pass TAU)
Taus == {0, TauDen \div 2, TauDen}

\* Agent.soft_update(qnetwork_local, qnetwork_target, tau) called by the driver
SoftUpdateCall ==
    /\ pc = "idle"
    /\ soft_calls < MaxSoftCalls
    /\ \E tauN \in Taus :
        /\ theta_target' = SoftUpdate(theta_local, theta_target, tauN)
        /\ last' = [op |-> "soft_update", tau |-> tauN,
                    local |-> theta_local, target |-> theta_target]
    /\ err' = "none"
    /\ soft_calls' = soft_calls + 1
    /\ UNCHANGED << config, memory, t_step, theta_local, frame, n_added,
                    step_count, learn_count, sample_count, learn_calls >>

\* random.random() > eps, both as numerators over RandDen
Explore(u, eps) == ~(u > eps)

\* the action act returns
Policy(q, u, eps, c) == IF Explore(u, eps) THEN c ELSE ArgMax(q)

\* Agent.act(state, eps): u is random.random()'s draw, c random.choice's
Act ==
    /\ pc = "idle"
    /\ \E s \in States \cup {e.state : e \in env}, eps \in 0 .. RandDen,
          u \in 0 .. (RandDen - 1), c \in Actions :
        IF ForwardOk(s)
        THEN /\ err' = "none"
             /\ last' = [op |-> "act", state |-> s, eps |-> eps, u |-> u,
                         q |-> Forward(theta_local, s),
                         action |-> Policy(Forward(theta_local, s), u, eps, c)]
        ELSE /\ err' = "RuntimeError"
             /\ last' = [op |-> "act", state |-> s, eps |-> eps, u |-> u,
                         q |-> << >>, action |-> -1]
    /\ UNCHANGED << config, memory, t_step, nets, frame, n_added, step_count,
                    learn_count, sample_count, learn_calls, soft_calls >>

\* --------------------------------------------------------------- the runs
\* transitions of the right shape the driver passes: a rewarded step that
\* goes on, a penalised step that ends the episode
Transitions ==
    { Experience(<<1>>, 0, One, <<1>>, FALSE),
      Experience(<<1>>, 1, 0 - One, <<1>>, TRUE) }

\* a transition whose state has state_size + 1 components
Malformed == { Experience(<<1, 1>>, 0, One, <<1>>, FALSE) }

\* the synthetic transition of the end-to-end run
Synthetic == { Experience(<<1>>, 0, One, <<1>>, FALSE) }

\* both networks are built from one seed: identical initial parameters
InitThetas ==
    { [a \in Actions |-> 0], [a \in Actions |-> a * One],
      [a \in Actions |-> 0 - One] }

InitAgent ==
    /\ memory = << >>
    /\ t_step = 0
    /\ \E th \in InitThetas : theta_local = th /\ theta_target = th
    /\ pc = "idle"
    /\ epoch = 0
    /\ experiences = NoBatch
    /\ gamma = 0
    /\ y = << >>
    /\ target_entry = << >>
    /\ n_grad = 0
    /\ n_soft = 0
    /\ err = "none"
    /\ last = [op |-> "init", idx |-> << >>]
    /\ n_added = 0
    /\ step_count = 0
    /\ learn_count = 0
    /\ sample_count = 0
    /\ learn_calls = 0
    /\ soft_calls = 0

SmallConfig ==
    /\ maxlen \in 1 .. MaxBufferSize
    /\ batch_size \in 1 .. MaxBatchSize
    /\ update_every \in 1 .. MaxUpdateEvery

\* every small configuration, a driver that passes well-formed transitions
Init == SmallConfig /\ env = Transitions /\ InitAgent

\* a ReplayBuffer(action_size, buffer_size, batch_size, seed) used without
\* Agent.step: update_every is never read
InitBuffer ==
    /\ maxlen \in 1 .. MaxBufferSize
    /\ batch_size \in 1 .. MaxBatchSize
    /\ update_every = 1
    /\ env = Transitions
    /\ InitAgent

\* every small configuration, a driver that may also pass a state of the
\* wrong dimension
InitShape == SmallConfig /\ env = Transitions \cup Malformed /\ InitAgent

\* the program's constants, one synthetic transition
InitE2E ==
    /\ maxlen = BUFFER_SIZE
    /\ batch_size = BATCH_SIZE
    /\ update_every = UPDATE_EVERY
    /\ env = Synthetic
    /\ InitAgent

\* the agent driven by its environment loop
Next ==
    \/ Step
    \/ EpochGrad
    \/ EpochSoft

\* the replay buffer on its own
NextBuffer ==
    \/ Add
    \/ Sample

\* learn called on batches of a buffer filled by add
NextLearn ==
    \/ Add
    \/ Learn
    \/ EpochGrad
    \/ EpochSoft

\* the environment loop with direct soft updates in between
NextSoft ==
    \/ Step
    \/ EpochGrad
    \/ EpochSoft
    \/ SoftUpdateCall

\* the environment loop with action selection in between
NextAct ==
    \/ Step
    \/ EpochGrad
    \/ EpochSoft
    \/ Act

Spec == Init /\ [][Next]_vars
SpecBuffer == InitBuffer /\ [][NextBuffer]_vars
SpecLearn == InitBuffer /\ [][NextLearn]_vars
SpecSoft == Init /\ [][NextSoft]_vars
SpecAct == Init /\ [][NextAct]_vars
SpecShape == InitShape /\ [][NextAct]_vars
SpecE2E == InitE2E /\ [][Next]_vars

\* =================================================================== claims

\* C1: for every sequence of add calls the occupancy never exceeds
\* buffer_size, and the deque holds exactly the most recent
\* min(n_added, buffer_size) transitions in insertion order (oldest evicted
\* first): its i-th element is the transition with insertion number
\* n_added - occupancy + i, the last one the transition just added.
C1_BufferHoldsMostRecent ==
    /\ Len(memory) <= maxlen
    /\ Len(memory) = Min(n_added, maxlen)
    /\ \A i \in 1 .. Len(memory) : memory[i].id = n_added - Len(memory) + i
    /\ last.op = "add" => memory[Len(memory)] = Stored(last.input, n_added)

\* C1 witness: more transitions were added than the deque holds
C1_Witness == last.op = "add" /\ n_added > maxlen + 1 /\ Len(memory) = maxlen

\* a call of Agent.step is the one transition that counts a step
StepTaken == step_count' = step_count + 1

\* C2: every call of step stores the transition first, makes t_step
\* (t_step + 1) mod update_every, and enters learn (after one sample) if and
\* only if the new t_step is 0 and the occupancy after the insertion is
\* strictly greater than batch_size; otherwise it returns without learning
\* and without an error.
C2_StepGate ==
    [][ StepTaken =>
          /\ n_added' = n_added + 1
          /\ memory'[Len(memory')] = Stored(last'.input, n_added')
          /\ \A i \in 1 .. (Len(memory') - 1) :
                \E j \in 1 .. Len(memory) : memory'[i] = memory[j]
          /\ t_step' = (t_step + 1) % update_every
          /\ (pc' = "grad") <=> (t_step' = 0 /\ Len(memory') > batch_size)
          /\ pc' = "grad" =>
                /\ learn_count' = learn_count + 1
                /\ sample_count' = sample_count + 1
                /\ epoch' = 0
          /\ pc' # "grad" =>
                /\ pc' = "idle"
                /\ err' = "none"
                /\ UNCHANGED << learn_count, sample_count, nets, experiences, y >>
      ]_vars

\* C2 witness: a step that has just entered learn
C2_Witness ==
    /\ last.op = "step"
    /\ pc = "grad"
    /\ epoch = 0
    /\ n_grad = 0
    /\ t_step = 0
    /\ Len(memory) > batch_size

\* C3 as stated: after 65 consecutive calls of step (update_every = 4,
\* batch_size = 64) learn has been triggered at least once.
C3_LearnWithin65 == step_count = 65 => learn_count >= 1

\* C3 as amended: learn is first triggered by the 68th consecutive call of
\* step, and by no earlier one.
C3_LearnAt68 ==
    /\ step_count >= 68 => learn_count >= 1
    /\ step_count < 68 => learn_count = 0

\* C3 witness: the 68th call has triggered the first learn
C3_Witness == step_count = 68 /\ learn_count = 1 /\ pc = "grad" /\ epoch = 0

C5_SampleDistinct ==
    (last.op = "sample" /\ Len(memory) >= batch_size) =>
        /\ err = "none"
        /\ Len(last.idx) = batch_size
        /\ \A i, j \in 1 .. batch_size : i # j => last.idx[i] # last.idx[j]
        /\ \A i \in 1 .. batch_size :
              /\ last.idx[i] \in 1 .. Len(memory)
              /\ last.batch.states[i] = memory[last.idx[i]].state
              /\ last.batch.actions[i] = memory[last.idx[i]].action
              /\ last.batch.rewards[i] = memory[last.idx[i]].reward
              /\ last.batch.next_states[i] = memory[last.idx[i]].next_state
              /\ last.batch.dones[i] = (IF memory[last.idx[i]].done THEN 1 ELSE 0)
        /\ Len(last.batch.states) = batch_size
        /\ Len(last.batch.actions) = batch_size
        /\ Len(last.batch.rewards) = batch_size
        /\ Len(last.batch.next_states) = batch_size
        /\ Len(last.batch.dones) = batch_size

\* C5 witness: a batch of several transitions drawn from a larger buffer
C5_Witness ==
    /\ last.op = "sample"
    /\ err = "none"
    /\ batch_size >= 2
    /\ Len(memory) > batch_size
    /\ Len(last.idx) = batch_size

\* action a has the largest action-value of parameters theta at state s
IsBestAction(a, theta, s) ==
    \A b \in Actions : theta[b] * s[1] <= theta[a] * s[1]

IsBlend(t, l, old, lAfter, new) ==
    /\ \A a \in Actions :
          /\ TauDen * new[a] <= t * l[a] + (TauDen - t) * old[a]
          /\ t * l[a] + (TauDen - t) * old[a] < TauDen * new[a] + TauDen
          /\ Min(old[a], l[a]) <= new[a]
          /\ new[a] <= Max(old[a], l[a])
    /\ t = 0 => new = old
    /\ t = TauDen => new = l
    /\ lAfter = l

\* C7: soft_update(local, target, tau) with tau in [0, 1] makes every target
\* parameter tau * local + (1 - tau) * old target, between old target and
\* local; tau = 0 leaves the target unchanged, tau = 1 makes it the local
\* parameters; the local parameters are never changed.  Stated of the
\* driver's direct calls and of the call at the end of every learn epoch.
C7_SoftUpdate ==
    [][ /\ soft_calls' = soft_calls + 1 =>
              /\ last'.tau \in 0 .. TauDen
              /\ IsBlend(last'.tau, theta_local, theta_target,
                         theta_local', theta_target')
        /\ pc = "soft" =>
              IsBlend(TauNum, theta_local, theta_target,
                      theta_local', theta_target')
      ]_vars

\* C7 witness: a direct soft update with 0 < tau < 1 moved the target
\* strictly between its old value and the local parameters
C7_Witness ==
    /\ last.op = "soft_update"
    /\ last.tau \notin {0, TauDen}
    /\ \E a \in Actions :
          /\ theta_target[a] # last.target[a]
          /\ theta_target[a] # theta_local[a]

\* C8: act(state, 0) is greedy whatever the generator draws: the action is
\* the first maximum of the local action-values (so two calls on the same
\* state and parameters agree).
C8_GreedyAtZero ==
    (last.op = "act" /\ err = "none" /\ last.eps = 0) =>
        /\ \A b \in Actions : last.q[b] <= last.q[last.action]
        /\ \A b \in Actions : b < last.action => last.q[b] < last.q[last.action]

\* C9: step and act fail at once with ShapeMismatchError on a state of the
\* wrong dimension; no malformed transition is ever stored or learnt from.
C9_ShapeMismatch ==
    /\ \A i \in 1 .. Len(memory) : Len(memory[i].state) = state_size
    /\ (last.op = "step" /\ Len(last.input.state) # state_size)
          => (err = "ShapeMismatchError" /\ pc = "idle")
    /\ (last.op = "act" /\ Len(last.state) # state_size)
          => err = "ShapeMismatchError"

\* C10: a learning trigger samples once and runs exactly 10 epochs on that
\* batch; every epoch is one gradient step of the local network followed at
\* once by one soft update of the target network; y is the TD target of the
\* target parameters as learn was entered and is never recomputed.
C10_Epochs ==
    [][ /\ pc # "idle" =>
              /\ sample_count' = sample_count
              /\ memory' = memory
              /\ y = TDTargets(experiences, target_entry, gamma)
              /\ Len(y) = batch_size
        /\ (pc # "idle" /\ pc' # "idle") =>
              /\ experiences' = experiences
              /\ y' = y
              /\ target_entry' = target_entry
        /\ pc = "grad" =>
              /\ pc' = "soft"
              /\ epoch < 10
              /\ n_grad = epoch /\ n_soft = epoch
              /\ n_grad' = n_grad + 1 /\ n_soft' = n_soft
              /\ theta_target' = theta_target
        /\ pc = "soft" =>
              /\ n_grad = epoch + 1 /\ n_soft = epoch
              /\ n_soft' = n_soft + 1 /\ n_grad' = n_grad
              /\ theta_local' = theta_local
              /\ pc' = (IF n_soft' = 10 THEN "idle" ELSE "grad")
        /\ (pc = "idle" /\ pc' # "idle") =>
              /\ pc' = "grad"
              /\ sample_count' = sample_count + 1
              /\ n_grad' = 0 /\ n_soft' = 0
              /\ target_entry' = theta_target
      ]_vars

\* C10 witness: the 10th gradient step of a learn is done, and the soft
\* updates so far have moved the target parameters away from those y was
\* computed from, with a non-terminal transition in the batch
C10_Witness ==
    /\ pc = "soft"
    /\ n_grad = 10
    /\ n_soft = 9
    /\ theta_target # target_entry
    /\ y # TDTargets(experiences, theta_target, gamma)

====
